---- MODULE Spec2Model ----
(***************************************************************************)
(* Event-with-venues write and read workflows of the event dashboard       *)
(* (server actions createEvent, updateEvent, deleteEvent, getEventById)    *)
(* over the two backend relations events and event_venues.                 *)
(*                                                                         *)
(* Every backend call awaited by a server action is one atomic step; the   *)
(* server actions of different requests interleave between those steps.    *)
(* A backend call either takes effect and returns no error, or returns an  *)
(* error and changes nothing.  The relations follow the schema of          *)
(* README.md: event_venues.event_id references events(id) on delete        *)
(* cascade, ids are generated by the backend and never reused.             *)
(* Requests of updateEvent, deleteEvent and getEventById are taken to      *)
(* carry an authenticated session, so the row-level-security policies      *)
(* admit them; createEvent reads the principal itself.                     *)
(*                                                                         *)
(* The read actions getEvents and searchAndFilterEvents, the wrapper       *)
(* deleteEventAction, the auth actions, the error normalizer and the OAuth *)
(* callback route are modelled with the text they compute on: messages,    *)
(* search terms and redirect locations are strings, matched, lower-cased,  *)
(* encoded and decoded character by character.  An awaited call may also   *)
(* throw; the value thrown is an Error with a message or some other value. *)
(*                                                                         *)
(* The redirect of the callback goes through new URL(): a location is      *)
(* split into authority, user information, host and port, and one that is  *)
(* no URL makes the redirect throw.  The middleware matcher is the regular *)
(* expression of config.matcher applied to request paths; the server-side  *)
(* cookie accessor is getAll and setAll over a cookie store that allows or *)
(* forbids modification.  createEvent and updateEvent take their inputs    *)
(* from the forms (checked against the schemas) or directly (unchecked).   *)
(***************************************************************************)
EXTENDS Integers, Naturals, Sequences, FiniteSets, TLC

\* ------------------------------------------------------------------ bounds
\* number of request slots: server actions that may be in flight at once
MaxCalls == 2
\* number of event ids the backend generates in one run
MaxEvents == 1
\* number of requests served in one run
MaxRequests == 3
\* number of events stored when the queries are examined
MaxRows == 2

Calls == 1..MaxCalls
\* the ids the backend generates, in this order
EventIds == 1..MaxEvents
\* a well-formed id that the backend never generates
StrayId == MaxEvents + 1
\* the ids an event_venues row may carry as event_id
Ids == EventIds \cup {StrayId}

\* ------------------------------------------------------------ value domains
\* a field left out of an input object (JS undefined), a null column
Undefined == "undefined"
\* no authenticated principal in the request
NoUser == "no user"
\* the error member of a backend reply that succeeded
NoError == "null"

Principals == {"u1", "u2"}
VenueNames == {"Field A", "Field B", "Field C", ""}

\* messages of backend rejections that may hit any call
BackendMessages == {"backend rejected the request"}
\* insert of an event_venues row whose event_id matches no events row
ForeignKeyViolation == "violates foreign key constraint"
\* .single() on a selection of no rows
NoRows == "no rows returned"
\* what a backend call may answer: no error, or a rejection
BackendOutcomes == {NoError} \cup BackendMessages

\* a value thrown by an awaited call: an Error with its message, or a value
\* that is no Error
Error(message) == [isError |-> TRUE, message |-> message]
NotAnError == [isError |-> FALSE, message |-> "rejected promise"]
\* what createClient() or a backend call may throw
Throwables ==
    { Error("fetch failed"),
      Error("duplicate key value violates unique constraint"),
      NotAnError }

\* the reply of an awaited call: it returned { error } or it threw
Replied(outcome) ==
    [thrown |-> FALSE, isError |-> outcome # NoError, message |-> outcome]
Threw(e) == [thrown |-> TRUE, isError |-> e.isError, message |-> e.message]
Replies ==
    {Replied(outcome) : outcome \in BackendOutcomes}
        \cup {Threw(e) : e \in Throwables}

\* ----------------------------------------------------------------- strings
CharAt(s, i) == SubSeq(s, i, i)
Rest(s) == SubSeq(s, 2, Len(s))
\* a string | null | undefined that is truthy
Truthy(s) == s # Undefined /\ s # ""

UpperCase == "ABCDEFGHIJKLMNOPQRSTUVWXYZ"
LowerCase == "abcdefghijklmnopqrstuvwxyz"
LowerChar(ch) ==
    IF \E i \in 1..Len(UpperCase) : CharAt(UpperCase, i) = ch
    THEN CharAt(LowerCase,
                CHOOSE i \in 1..Len(UpperCase) : CharAt(UpperCase, i) = ch)
    ELSE ch

RECURSIVE ToLowerCase(_)
ToLowerCase(s) ==
    IF s = "" THEN "" ELSE LowerChar(CharAt(s, 1)) \o ToLowerCase(Rest(s))

\* the characters of the timestamps, in their order
DateChars == "-0123456789:TZ"
DateCharRank(ch) == CHOOSE i \in 1..Len(DateChars) : CharAt(DateChars, i) = ch

\* timestamp a is earlier than timestamp b (both written in UTC)
RECURSIVE DateBefore(_, _)
DateBefore(a, b) ==
    IF b = "" THEN FALSE
    ELSE IF a = "" THEN TRUE
    ELSE IF CharAt(a, 1) = CharAt(b, 1) THEN DateBefore(Rest(a), Rest(b))
    ELSE DateCharRank(CharAt(a, 1)) < DateCharRank(CharAt(b, 1))

\* the characters encodeURIComponent escapes, among those of the model's
\* strings, and their escapes
EscapedChars == " #$%&+,/:;=?@"
Escapes ==
    <<"%20", "%23", "%24", "%25", "%26", "%2B", "%2C", "%2F", "%3A", "%3B",
      "%3D", "%3F", "%40">>
EscapeIndex(ch) ==
    IF \E i \in 1..Len(EscapedChars) : CharAt(EscapedChars, i) = ch
    THEN CHOOSE i \in 1..Len(EscapedChars) : CharAt(EscapedChars, i) = ch
    ELSE 0

\* encodeURIComponent(s): every character in turn, escaped where it must be
EncodeURIComponent(s) ==
    LET EncodeFrom[i \in 1..(Len(s) + 1)] ==
            IF i > Len(s) THEN ""
            ELSE (IF EscapeIndex(CharAt(s, i)) = 0 THEN CharAt(s, i)
                  ELSE Escapes[EscapeIndex(CharAt(s, i))]) \o EncodeFrom[i + 1]
    IN EncodeFrom[1]

\* a value of a query string as URLSearchParams decodes it
RECURSIVE DecodeQueryValue(_)
DecodeQueryValue(s) ==
    IF s = "" THEN ""
    ELSE IF CharAt(s, 1) = "+" THEN " " \o DecodeQueryValue(Rest(s))
    ELSE IF /\ CharAt(s, 1) = "%" /\ Len(s) >= 3
            /\ \E i \in 1..Len(Escapes) : Escapes[i] = SubSeq(s, 1, 3)
         THEN CharAt(EscapedChars,
                     CHOOSE i \in 1..Len(Escapes) : Escapes[i] = SubSeq(s, 1, 3))
              \o DecodeQueryValue(SubSeq(s, 4, Len(s)))
    ELSE CharAt(s, 1) \o DecodeQueryValue(Rest(s))

\* the position of the first ch in s, 0 when there is none
IndexOf(s, ch) ==
    IF \E i \in 1..Len(s) : CharAt(s, i) = ch
    THEN CHOOSE i \in 1..Len(s) :
            CharAt(s, i) = ch /\ \A j \in 1..(i - 1) : CharAt(s, j) # ch
    ELSE 0

\* s up to the first ch, and s after it
Before(s, ch) == IF IndexOf(s, ch) = 0 THEN s ELSE SubSeq(s, 1, IndexOf(s, ch) - 1)
After(s, ch) == IF IndexOf(s, ch) = 0 THEN "" ELSE SubSeq(s, IndexOf(s, ch) + 1, Len(s))

\* searchParams.get(name) on a query string: the first value, null when absent
RECURSIVE SearchParam(_, _)
SearchParam(query, name) ==
    IF query = "" THEN Undefined
    ELSE IF Before(Before(query, "&"), "=") = name
         THEN DecodeQueryValue(After(Before(query, "&"), "="))
    ELSE SearchParam(After(query, "&"), name)

\* the path and the query string of a location
PathOf(url) == Before(url, "?")
QueryOf(url) == After(url, "?")

\* new URL(url) on an https location: the authority ends at the first of
\* "/", "?" and "#"; what precedes its last "@" is the user information, and
\* what follows the ":" of the rest is the port
Scheme == "https://"
AfterScheme(url) == SubSeq(url, Len(Scheme) + 1, Len(url))
AuthorityOf(url) == Before(Before(Before(AfterScheme(url), "/"), "?"), "#")
RECURSIVE AfterLast(_, _)
AfterLast(s, ch) == IF IndexOf(s, ch) = 0 THEN s ELSE AfterLast(After(s, ch), ch)
HostOf(url) == Before(AfterLast(AuthorityOf(url), "@"), ":")
PortOf(url) == After(AfterLast(AuthorityOf(url), "@"), ":")
Digits == "0123456789"
\* new URL(url) throws on an empty host and on a port that is not a number
ValidUrl(url) ==
    /\ HostOf(url) # ""
    /\ \A i \in 1..Len(PortOf(url)) :
          \E d \in 1..Len(Digits) : CharAt(PortOf(url), i) = CharAt(Digits, d)
\* String(new URL(url)): an empty path is written as "/"
Href(url) ==
    IF Len(AuthorityOf(url)) = Len(AfterScheme(url))
          \/ CharAt(AfterScheme(url), Len(AuthorityOf(url)) + 1) # "/"
    THEN Scheme \o AuthorityOf(url) \o "/"
            \o SubSeq(AfterScheme(url), Len(AuthorityOf(url)) + 1,
                      Len(AfterScheme(url)))
    ELSE url

\* an optional array: omitted, or given with a value
Omitted == {}
Given(v) == {v}
IsGiven(o) == o # {}
ValueOf(o) == CHOOSE v \in o : TRUE

\* the multiset of venue names of a list of venue inputs
BagOfSeq(names) ==
    [v \in VenueNames |-> Cardinality({i \in DOMAIN names : names[i] = v})]
NoVenues == [v \in VenueNames |-> 0]
BagSum(a, b) == [v \in VenueNames |-> a[v] + b[v]]

\* inputs that passed createEventSchema: required scalars, at least one venue
CreateInputs ==
    << [name |-> "5v5 League", date |-> "2025-03-01T18:00:00Z",
        sport_type |-> "Soccer", description |-> Undefined,
        venues |-> Given(<<"Field A">>)],
       [name |-> "Hoops", date |-> "2025-04-01T10:00:00Z",
        sport_type |-> "Basketball", description |-> "finals",
        venues |-> Given(<<"Field A", "Field B">>)] >>

\* the requests of createEvent: the principal of the session, and the input
CreateRequests ==
    { [session |-> "u1", input |-> CreateInputs[1]],
      [session |-> "u2", input |-> CreateInputs[2]],
      [session |-> NoUser, input |-> CreateInputs[1]] }

\* inputs that passed updateEventSchema: every field optional, venues
\* non-empty when given
UpdateInputs ==
    { [name |-> "Renamed", date |-> Undefined, sport_type |-> Undefined,
       description |-> Undefined, venues |-> Omitted],
      [name |-> Undefined, date |-> Undefined, sport_type |-> "Tennis",
       description |-> Undefined, venues |-> Given(<<"Field B", "Field C">>)],
      [name |-> Undefined, date |-> Undefined, sport_type |-> "Golf",
       description |-> "moved", venues |-> Given(<<"Field C", "Field C">>)] }

\* z.string().min(1) on a required member
MinOne(s) == s # Undefined /\ Len(s) >= 1
\* venueSchema, on the venue_name of a venue
VenueSchema(venue_name) == MinOne(venue_name)
\* z.array(venueSchema).min(1)
VenuesSchema(venues) ==
    /\ Len(venues) >= 1
    /\ \A i \in DOMAIN venues : VenueSchema(venues[i])
\* createEventSchema
CreateEventSchema(input) ==
    /\ MinOne(input.name) /\ MinOne(input.date) /\ MinOne(input.sport_type)
    /\ IsGiven(input.venues) /\ VenuesSchema(ValueOf(input.venues))
\* createEventSchema.partial(): a member is absent or as createEventSchema
\* requires it
UpdateEventSchema(input) ==
    /\ \A f \in {"name", "date", "sport_type"} :
          input[f] = Undefined \/ MinOne(input[f])
    /\ IsGiven(input.venues) => VenuesSchema(ValueOf(input.venues))

\* inputs of a call of createEvent that no form checked: the server action
\* takes whatever object the request carries
UncheckedCreateRequests ==
    { [session |-> "u1", input |-> CreateInputs[1]],
      [session |-> "u1", input |-> [CreateInputs[1] EXCEPT !.name = ""]],
      [session |-> "u1", input |-> [CreateInputs[1] EXCEPT !.venues = Given(<<>>)]],
      [session |-> "u2",
       input |-> [CreateInputs[2] EXCEPT !.venues = Given(<<"Field A", "">>)]] }

\* inputs of a call of updateEvent that no form checked
UncheckedUpdateInputs ==
    { [name |-> "Renamed", date |-> Undefined, sport_type |-> Undefined,
       description |-> Undefined, venues |-> Omitted],
      [name |-> Undefined, date |-> Undefined, sport_type |-> Undefined,
       description |-> "no venues", venues |-> Given(<<>>)],
      [name |-> "", date |-> Undefined, sport_type |-> "",
       description |-> Undefined, venues |-> Omitted],
      [name |-> Undefined, date |-> Undefined, sport_type |-> "Tennis",
       description |-> Undefined, venues |-> Given(<<"", "Field B">>)] }

NoData ==
    [name |-> Undefined, date |-> Undefined, sport_type |-> Undefined,
     description |-> Undefined, venues |-> Omitted]

\* ------------------------------------------------------------------- state
VARIABLES
    events,          \* relation events: id -> row
    event_venues,    \* relation event_venues: event_id -> multiset of venue_name
    nextId,          \* the next id the backend generates
    op,              \* per request: the server action it runs
    pc,              \* per request: the backend call it is about to await
    session,         \* per request of createEvent: the principal of its auth cookies
    eventId,         \* per request: parameter id, or event.id of createEvent
                     \* (the stray id until the insert returned it)
    exit,            \* per request: how the call ended
    issued,          \* per request: the backend calls it issued, in order
    data,            \* per request: parameter data
    user,            \* per request: createEvent's local user
    error,           \* per request: error member of the last backend reply
    result,          \* per request: the envelope returned
    venuesAtStart,   \* per request: the venues of event id when the call began
    requests         \* the number of requests received so far

vars == <<events, event_venues, nextId, op, pc, session, eventId, data, user,
          error, result, exit, issued, venuesAtStart, requests>>
db == <<events, event_venues, nextId>>

\* --------------------------------------------------------- response envelope
SuccessResponse(d) == [success |-> TRUE, data |-> d, error |-> NoError]
ErrorResponse(msg) == [success |-> FALSE, data |-> {}, error |-> msg]
NoResult == [success |-> FALSE, data |-> {}, error |-> Undefined]

\* how a call ends: it returns a value, redirects the browser, or lets a value
\* it did not catch escape to its caller
NoExit == [kind |-> "none", value |-> Undefined]
Returned == [kind |-> "return", value |-> Undefined]
Redirected(url) == [kind |-> "redirect", value |-> url]
Escaped(e) == [kind |-> "throw", value |-> e.message]

\* --------------------------------------------------------- error normalizer
\* message.includes(phrase)
Includes(message, phrase) ==
    \E i \in 1..(Len(message) - Len(phrase) + 1) :
        SubSeq(message, i, i + Len(phrase) - 1) = phrase

\* the rules tried in another order: unique constraint before duplicate key
HandleDatabaseError_Reordered(e) ==
    IF e.isError
    THEN IF Includes(e.message, "unique constraint")
         THEN "This value already exists"
         ELSE IF Includes(e.message, "duplicate key")
         THEN "This record already exists"
         ELSE IF Includes(e.message, "foreign key")
         THEN "Referenced record not found"
         ELSE IF Includes(e.message, "not null")
         THEN "Required field is missing"
         ELSE e.message
    ELSE "An unexpected error occurred"

HandleDatabaseError(e) ==
    IF e.isError
    THEN IF Includes(e.message, "duplicate key")
         THEN "This record already exists"
         ELSE IF Includes(e.message, "foreign key")
         THEN "Referenced record not found"
         ELSE IF Includes(e.message, "not null")
         THEN "Required field is missing"
         ELSE IF Includes(e.message, "unique constraint")
         THEN "This value already exists"
         ELSE e.message
    ELSE "An unexpected error occurred"

HandleActionError(e) == ErrorResponse(HandleDatabaseError(e))

\* ------------------------------------------------------ the backend relations
\* the row of events joined with its event_venues rows: select(*, venues:event_venues(*))
EventWithVenues(id) ==
    [id |-> id, name |-> events[id].name, date |-> events[id].date,
     sport_type |-> events[id].sport_type, description |-> events[id].description,
     created_by |-> events[id].created_by, venues |-> event_venues[id]]

\* the insert without created_by
EventsInsert_NoCreator(id, input, principal) ==
    events @@ (id :> [id |-> id, name |-> input.name, date |-> input.date,
                      sport_type |-> input.sport_type,
                      description |-> input.description, created_by |-> Undefined])

\* events after insert({name, date, sport_type, description, created_by}); the
\* backend generates the id
EventsInsert(id, input, principal) ==
    events @@ (id :> [id |-> id, name |-> input.name, date |-> input.date,
                      sport_type |-> input.sport_type,
                      description |-> input.description, created_by |-> principal])

\* an update that writes every member of the object, undefined ones included
PatchRow_Overwrite(row, patch) ==
    [row EXCEPT !.name = patch.name, !.date = patch.date,
                !.sport_type = patch.sport_type,
                !.description = patch.description]

\* a row after update({name, date, sport_type, description}): a member that is
\* undefined is not sent and keeps the stored column
PatchRow(row, patch) ==
    [row EXCEPT
       !.name = IF patch.name = Undefined THEN @ ELSE patch.name,
       !.date = IF patch.date = Undefined THEN @ ELSE patch.date,
       !.sport_type = IF patch.sport_type = Undefined THEN @ ELSE patch.sport_type,
       !.description = IF patch.description = Undefined THEN @ ELSE patch.description]

\* events after update(patch).eq('id', id): the rows that match, none when the
\* id matches no row
EventsUpdate(id, patch) ==
    IF id \in DOMAIN events
    THEN [events EXCEPT ![id] = PatchRow(@, patch)]
    ELSE events

\* a delete without its filter: every row goes
EventsDelete_Unfiltered(id) == <<>>

\* events after delete().eq('id', id)
EventsDelete(id) == [i \in DOMAIN events \ {id} |-> events[i]]

\* a schema without on delete cascade
VenuesCascade_Missing(id) == event_venues

\* event_venues after the cascade of a delete of events row id
VenuesCascade(id) == [event_venues EXCEPT ![id] = NoVenues]

\* a delete that matches no row
VenuesDelete_Nothing(id) == event_venues

\* event_venues after delete().eq('event_id', id)
VenuesDelete(id) == [event_venues EXCEPT ![id] = NoVenues]

\* event_venues after insert(names.map(n => ({event_id: id, venue_name: n})))
VenuesInsert(id, names) ==
    [event_venues EXCEPT ![id] = BagSum(@, BagOfSeq(names))]

\* a schema without the foreign key
VenuesInsertError_NoForeignKey(id, outcome) == outcome

\* the error of an insert into event_venues: the rejection drawn for the call,
\* else the foreign key event_id -> events(id) when no such event exists
VenuesInsertError(id, outcome) ==
    IF outcome # NoError THEN outcome
    ELSE IF id \notin DOMAIN events THEN ForeignKeyViolation
    ELSE NoError

\* the data of select().eq('id', id): the row that matches, null when none does
SelectData(id) ==
    IF id \in DOMAIN events THEN Given(EventWithVenues(id)) ELSE {}

\* maybeSingle() in place of single(): no row is no error
SelectError_MaybeSingle(id, outcome) == outcome

\* the error of select().eq('id', id).single()
SelectError(id, outcome) ==
    IF outcome # NoError THEN outcome
    ELSE IF id \notin DOMAIN events THEN NoRows
    ELSE NoError

\* ------------------------------------------------------------- getEventById
GetEventById(id, outcome) ==
    IF SelectError(id, outcome) # NoError
    THEN ErrorResponse(SelectError(id, outcome))
    ELSE SuccessResponse(SelectData(id))

\* ------------------------------------------- getEvents, searchAndFilterEvents
\* row x comes before row y under order('date', { ascending: true }); rows of
\* equal date come in the order they are stored
Precedes(x, y) ==
    \/ DateBefore(events[x].date, events[y].date)
    \/ events[x].date = events[y].date /\ x < y

\* the ids of S in the order of the query
RECURSIVE OrderByDate(_)
OrderByDate(S) ==
    IF S = {} THEN <<>>
    ELSE LET first == CHOOSE x \in S : \A y \in S \ {x} : Precedes(x, y)
         IN <<first>> \o OrderByDate(S \ {first})

\* the rows of a sequence of ids, each with its venues
RowsOf(ids) == [i \in DOMAIN ids |-> EventWithVenues(ids[i])]

\* the pattern operator of the backend on lower-cased operands: % (written *
\* as well) matches any run of characters, _ any one character
RECURSIVE Like(_, _)
Like(s, pattern) ==
    IF pattern = "" THEN s = ""
    ELSE IF CharAt(pattern, 1) \in {"%", "*"}
         THEN Like(s, Rest(pattern)) \/ (s # "" /\ Like(Rest(s), pattern))
    ELSE IF CharAt(pattern, 1) = "_"
         THEN s # "" /\ Like(Rest(s), Rest(pattern))
    ELSE s # "" /\ CharAt(s, 1) = CharAt(pattern, 1)
                /\ Like(Rest(s), Rest(pattern))

\* ilike(column, pattern)
ILike(s, pattern) == Like(ToLowerCase(s), ToLowerCase(pattern))

\* if (searchTerm) query = query.ilike('name', `%${searchTerm}%`)
NameFilter(id, searchTerm) ==
    Truthy(searchTerm) => ILike(events[id].name, "%" \o searchTerm \o "%")

\* the filter applied whether a sport type is given or not
SportFilter_Always(id, sportType) == events[id].sport_type = sportType

\* if (sportType) query = query.eq('sport_type', sportType)
SportFilter(id, sportType) ==
    Truthy(sportType) => events[id].sport_type = sportType

\* the envelope of a list query: events || []
ListResponse(outcome, S) ==
    IF outcome # NoError THEN ErrorResponse(outcome)
    ELSE SuccessResponse(RowsOf(OrderByDate(S)))

GetEventsResult(outcome) == ListResponse(outcome, DOMAIN events)

SearchAndFilterResult(searchTerm, sportType, outcome) ==
    ListResponse(outcome,
                 {id \in DOMAIN events :
                     NameFilter(id, searchTerm) /\ SportFilter(id, sportType)})

\* ------------------------------------------------------------------ helpers
\* the call returns envelope r
Return(c, r) ==
    /\ pc' = [pc EXCEPT ![c] = "done"]
    /\ result' = [result EXCEPT ![c] = r]
    /\ exit' = [exit EXCEPT ![c] = Returned]

\* the call goes on to await the backend call at label l
Goto(c, l) ==
    /\ pc' = [pc EXCEPT ![c] = l]
    /\ result' = result
    /\ exit' = exit

\* the call issues backend call b
Issue(c, b) == issued' = [issued EXCEPT ![c] = Append(@, b)]

\* a request invoking server action o with (id, d) takes the first free slot c;
\* its first backend call is part of the same step. The first step of every
\* server action takes the condition under which requests are admitted.
Invoke(c, o, s, id, d) ==
    /\ pc[c] = "idle"
    /\ \A b \in Calls : b < c => pc[b] # "idle"
    /\ requests < MaxRequests
    /\ requests' = requests + 1
    /\ op' = [op EXCEPT ![c] = o]
    /\ session' = [session EXCEPT ![c] = s]
    /\ eventId' = [eventId EXCEPT ![c] = id]
    /\ data' = [data EXCEPT ![c] = d]
    /\ venuesAtStart' = [venuesAtStart EXCEPT ![c] = event_venues[id]]

Init ==
    /\ events = <<>>
    /\ event_venues = [i \in Ids |-> NoVenues]
    /\ nextId = 1
    /\ op = [c \in Calls |-> "none"]
    /\ pc = [c \in Calls |-> "idle"]
    /\ session = [c \in Calls |-> NoUser]
    /\ eventId = [c \in Calls |-> StrayId]
    /\ data = [c \in Calls |-> NoData]
    /\ user = [c \in Calls |-> NoUser]
    /\ error = [c \in Calls |-> NoError]
    /\ result = [c \in Calls |-> NoResult]
    /\ exit = [c \in Calls |-> NoExit]
    /\ issued = [c \in Calls |-> <<>>]
    /\ venuesAtStart = [c \in Calls |-> NoVenues]
    /\ requests = 0

\* the request's arguments, which no later backend call changes
args == <<op, session, eventId, data, venuesAtStart, requests>>

\* the ids a caller can pass: those the backend has handed out, whether the
\* event still exists or not, and the stray one
KnownIds == {i \in EventIds : i < nextId} \cup {StrayId}

\* creates on their way to the event insert
PendingCreates == {c \in Calls : op[c] = "createEvent" /\ pc[c] = "insertEvent"}

\* -------------------------------------------------------------- createEvent
\* the check of the user dropped: only a getUser error rejects
NotAuthenticated_ErrorOnly(userError, u) == userError # NoError

\* if (userError || !user)
NotAuthenticated(userError, u) == userError # NoError \/ u = NoUser

\* const { data: { user }, error: userError } = await supabase.auth.getUser()
\* if (userError || !user) return errorResponse('User not authenticated')
CreateEventOf(c, admitted, offered) ==
    /\ admitted
    /\ Issue(c, "auth.getUser")
    /\ nextId + Cardinality(PendingCreates) <= MaxEvents
    /\ \E r \in offered, userError \in BackendOutcomes :
          LET u == IF userError # NoError THEN NoUser ELSE r.session IN
          /\ Invoke(c, "createEvent", r.session, StrayId, r.input)
          /\ user' = [user EXCEPT ![c] = u]
          /\ error' = [error EXCEPT ![c] = userError]
          /\ IF NotAuthenticated(userError, u)
             THEN Return(c, ErrorResponse("User not authenticated"))
             ELSE Goto(c, "insertEvent")
    /\ UNCHANGED db

\* createEvent called by the form, and called with an unchecked input
CreateGetUser(c, admitted) == CreateEventOf(c, admitted, CreateRequests)
CreateUnchecked(c, admitted) == CreateEventOf(c, admitted, UncheckedCreateRequests)

\* the error of the event insert not checked: the venue insert follows
CreateInsertEvent_ErrorIgnored(c) ==
    /\ op[c] = "createEvent" /\ pc[c] = "insertEvent"
    /\ Issue(c, "events.insert")
    /\ \E eventError \in BackendOutcomes :
          /\ error' = [error EXCEPT ![c] = eventError]
          /\ Goto(c, "insertVenues")
          /\ IF eventError # NoError
             THEN UNCHANGED <<db, eventId>>
             ELSE /\ events' = EventsInsert(nextId, data[c], user[c])
                  /\ nextId' = nextId + 1
                  /\ eventId' = [eventId EXCEPT ![c] = nextId]
                  /\ UNCHANGED event_venues
    /\ UNCHANGED <<op, session, data, venuesAtStart, requests, user>>

\* supabase.from('events').insert({..., created_by: user.id}).select().single()
CreateInsertEvent(c) ==
    /\ op[c] = "createEvent" /\ pc[c] = "insertEvent"
    /\ Issue(c, "events.insert")
    /\ \E eventError \in BackendOutcomes :
          /\ error' = [error EXCEPT ![c] = eventError]
          /\ IF eventError # NoError
             THEN /\ Return(c, ErrorResponse(eventError))
                  /\ UNCHANGED <<db, eventId>>
             ELSE /\ events' = EventsInsert(nextId, data[c], user[c])
                  /\ nextId' = nextId + 1
                  /\ eventId' = [eventId EXCEPT ![c] = nextId]
                  /\ Goto(c, "insertVenues")
                  /\ UNCHANGED event_venues
    /\ UNCHANGED <<op, session, data, venuesAtStart, requests, user>>

\* supabase.from('event_venues').insert(data.venues.map(...event_id: event.id...))
CreateInsertVenues(c) ==
    /\ op[c] = "createEvent" /\ pc[c] = "insertVenues"
    /\ Issue(c, "event_venues.insert")
    /\ \E outcome \in BackendOutcomes :
          LET venuesError == VenuesInsertError(eventId[c], outcome) IN
          /\ error' = [error EXCEPT ![c] = venuesError]
          /\ IF venuesError # NoError
             THEN /\ Return(c, ErrorResponse(venuesError))
                  /\ UNCHANGED db
             ELSE /\ event_venues' = VenuesInsert(eventId[c], ValueOf(data[c].venues))
                  /\ Goto(c, "reread")
                  /\ UNCHANGED <<events, nextId>>
    /\ UNCHANGED <<args, user>>

\* const result = await getEventById(event.id)
\* if (!result.success) return result; return successResponse(result.data!)
CreateReread(c) ==
    /\ op[c] = "createEvent" /\ pc[c] = "reread"
    /\ Issue(c, "events.select")
    /\ \E outcome \in BackendOutcomes :
          /\ error' = [error EXCEPT ![c] = SelectError(eventId[c], outcome)]
          /\ Return(c, GetEventById(eventId[c], outcome))
    /\ UNCHANGED <<db, args, user>>

\* -------------------------------------------------------------- updateEvent
\* the venues replaced whether provided or not
ReplacesVenues_Always(patch) == TRUE

\* an empty array taken for an omission
ReplacesVenues_NonEmpty(patch) ==
    IsGiven(patch.venues) /\ Len(ValueOf(patch.venues)) > 0

\* if (data.venues)
ReplacesVenues(patch) == IsGiven(patch.venues)

\* supabase.from('events').update({name, date, sport_type, description}).eq('id', id)
UpdateEventOf(c, admitted, offered) ==
    /\ admitted
    /\ Issue(c, "events.update")
    /\ \E id \in KnownIds, patch \in offered, eventError \in BackendOutcomes :
          /\ Invoke(c, "updateEvent", NoUser, id, patch)
          /\ error' = [error EXCEPT ![c] = eventError]
          /\ IF eventError # NoError
             THEN /\ Return(c, ErrorResponse(eventError))
                  /\ UNCHANGED events
             ELSE /\ events' = EventsUpdate(id, patch)
                  /\ IF ReplacesVenues(patch)
                     THEN Goto(c, "deleteVenues")
                     ELSE Goto(c, "reread")
    /\ UNCHANGED <<event_venues, nextId, user>>

\* updateEvent called by the form, and called with an unchecked input
UpdateEventRow(c, admitted) == UpdateEventOf(c, admitted, UpdateInputs)
UpdateUnchecked(c, admitted) == UpdateEventOf(c, admitted, UncheckedUpdateInputs)

\* the delete's error not checked: the insert follows in any case
UpdateDeleteVenues_ErrorIgnored(c) ==
    /\ op[c] = "updateEvent" /\ pc[c] = "deleteVenues"
    /\ Issue(c, "event_venues.delete")
    /\ \E deleteError \in BackendOutcomes :
          /\ error' = [error EXCEPT ![c] = deleteError]
          /\ event_venues' = IF deleteError # NoError THEN event_venues
                             ELSE VenuesDelete(eventId[c])
          /\ Goto(c, "insertVenues")
    /\ UNCHANGED <<events, nextId, args, user>>

\* supabase.from('event_venues').delete().eq('event_id', id)
UpdateDeleteVenues(c) ==
    /\ op[c] = "updateEvent" /\ pc[c] = "deleteVenues"
    /\ Issue(c, "event_venues.delete")
    /\ \E deleteError \in BackendOutcomes :
          /\ error' = [error EXCEPT ![c] = deleteError]
          /\ IF deleteError # NoError
             THEN /\ Return(c, ErrorResponse(deleteError))
                  /\ UNCHANGED event_venues
             ELSE /\ event_venues' = VenuesDelete(eventId[c])
                  /\ Goto(c, "insertVenues")
    /\ UNCHANGED <<events, nextId, args, user>>

\* supabase.from('event_venues').insert(data.venues.map(...event_id: id...))
UpdateInsertVenues(c) ==
    /\ op[c] = "updateEvent" /\ pc[c] = "insertVenues"
    /\ Issue(c, "event_venues.insert")
    /\ \E outcome \in BackendOutcomes :
          LET venuesError == VenuesInsertError(eventId[c], outcome) IN
          /\ error' = [error EXCEPT ![c] = venuesError]
          /\ IF venuesError # NoError
             THEN /\ Return(c, ErrorResponse(venuesError))
                  /\ UNCHANGED event_venues
             ELSE /\ event_venues' = VenuesInsert(eventId[c], ValueOf(data[c].venues))
                  /\ Goto(c, "reread")
    /\ UNCHANGED <<events, nextId, args, user>>

\* const result = await getEventById(id)
UpdateReread(c) ==
    /\ op[c] = "updateEvent" /\ pc[c] = "reread"
    /\ Issue(c, "events.select")
    /\ \E outcome \in BackendOutcomes :
          /\ error' = [error EXCEPT ![c] = SelectError(eventId[c], outcome)]
          /\ Return(c, GetEventById(eventId[c], outcome))
    /\ UNCHANGED <<db, args, user>>

\* -------------------------------------------------------------- deleteEvent
\* supabase.from('events').delete().eq('id', id); the schema cascades the delete
\* to the event_venues rows of the event
DeleteEventRow(c, admitted) ==
    /\ admitted
    /\ Issue(c, "events.delete")
    /\ \E id \in KnownIds, deleteError \in BackendOutcomes :
          /\ Invoke(c, "deleteEvent", NoUser, id, NoData)
          /\ error' = [error EXCEPT ![c] = deleteError]
          /\ IF deleteError # NoError
             THEN /\ Return(c, ErrorResponse(deleteError))
                  /\ UNCHANGED <<events, event_venues>>
             ELSE /\ events' = EventsDelete(id)
                  /\ event_venues' = VenuesCascade(id)
                  /\ Return(c, SuccessResponse({}))
    /\ UNCHANGED <<nextId, user>>

\* ------------------------------------------------------------- getEventById
GetEventByIdSelect(c, admitted) ==
    /\ admitted
    /\ Issue(c, "events.select")
    /\ \E id \in KnownIds, outcome \in BackendOutcomes :
          /\ Invoke(c, "getEventById", NoUser, id, NoData)
          /\ error' = [error EXCEPT ![c] = SelectError(id, outcome)]
          /\ Return(c, GetEventById(id, outcome))
    /\ UNCHANGED <<db, user>>

\* ------------------------------------------------- exceptions in the workflows
\* the try block without its catch: the value escapes to the caller
Catch_Missing(c, e) ==
    /\ pc' = [pc EXCEPT ![c] = "done"]
    /\ result' = result
    /\ exit' = [exit EXCEPT ![c] = Escaped(e)]

\* catch (error) { return handleActionError(error) }
Catch(c, e) == Return(c, HandleActionError(e))

\* the call ends without returning an envelope
Leave(c, r, x) ==
    /\ pc' = [pc EXCEPT ![c] = "done"]
    /\ result' = [result EXCEPT ![c] = r]
    /\ exit' = [exit EXCEPT ![c] = x]

\* the backend call a workflow awaits at label l
CallAt(l) ==
    CASE l = "insertEvent" -> "events.insert"
      [] l = "insertVenues" -> "event_venues.insert"
      [] l = "deleteVenues" -> "event_venues.delete"
      [] l = "reread" -> "events.select"

\* the server actions whose first step is given above
Workflows == {"createEvent", "updateEvent", "deleteEvent", "getEventById"}

\* createClient() or the first backend call of a workflow throws
ThrowsAtStart(c, admitted) ==
    /\ admitted
    /\ \E o \in Workflows, e \in Throwables :
          /\ Invoke(c, o, NoUser, StrayId, NoData)
          /\ Catch(c, e)
    /\ UNCHANGED <<db, user, error, issued>>

\* a later backend call of createEvent or updateEvent throws
Throws(c) ==
    /\ op[c] \in {"createEvent", "updateEvent"}
    /\ pc[c] \in {"insertEvent", "insertVenues", "deleteVenues", "reread"}
    /\ Issue(c, CallAt(pc[c]))
    /\ \E e \in Throwables : Catch(c, e)
    /\ UNCHANGED <<db, args, user, error>>

\* ------------------------------------------- getEvents, searchAndFilterEvents
SearchTerms == {Undefined, "", "hoop", "CUP", "%", "5_5"}
SportTypes == {Undefined, "", "Basketball", "Soccer"}
NoFilters == [searchTerm |-> Undefined, sportType |-> Undefined]

GetEvents(c, admitted) ==
    /\ admitted
    /\ Issue(c, "events.select")
    /\ \E reply \in Replies :
          /\ Invoke(c, "getEvents", NoUser, StrayId, NoFilters)
          /\ IF reply.thrown
             THEN Catch(c, reply) /\ UNCHANGED error
             ELSE /\ error' = [error EXCEPT ![c] = reply.message]
                  /\ Return(c, GetEventsResult(reply.message))
    /\ UNCHANGED <<db, user>>

SearchAndFilterEvents(c, admitted) ==
    /\ admitted
    /\ Issue(c, "events.select")
    /\ \E searchTerm \in SearchTerms, sportType \in SportTypes, reply \in Replies :
          /\ Invoke(c, "searchAndFilterEvents", NoUser, StrayId,
                    [searchTerm |-> searchTerm, sportType |-> sportType])
          /\ IF reply.thrown
             THEN Catch(c, reply) /\ UNCHANGED error
             ELSE /\ error' = [error EXCEPT ![c] = reply.message]
                  /\ Return(c, SearchAndFilterResult(searchTerm, sportType,
                                                     reply.message))
    /\ UNCHANGED <<db, user>>

\* ------------------------------------------------------- deleteEventAction
\* the redirect issued whatever deleteEvent returned
DeleteEventActionEnds_Unconditional(r) == Redirected("/dashboard")

\* if (!result.success) throw new Error(result.error); redirect('/dashboard')
DeleteEventActionEnds(r) ==
    IF ~r.success THEN Escaped(Error(r.error)) ELSE Redirected("/dashboard")

\* what deleteEvent(id) returns for the reply of its delete
DeleteEventResult(reply) ==
    IF reply.thrown THEN HandleActionError(reply)
    ELSE IF reply.message # NoError THEN ErrorResponse(reply.message)
    ELSE SuccessResponse({})

\* const result = await deleteEvent(id), then the throw or the redirect
DeleteEventAction(c, admitted) ==
    /\ admitted
    /\ Issue(c, "events.delete")
    /\ \E id \in KnownIds, reply \in Replies :
          /\ Invoke(c, "deleteEventAction", NoUser, id, NoData)
          /\ error' = [error EXCEPT ![c] = IF reply.thrown THEN @ ELSE reply.message]
          /\ IF DeleteEventResult(reply).success
             THEN /\ events' = EventsDelete(id)
                  /\ event_venues' = VenuesCascade(id)
             ELSE UNCHANGED <<events, event_venues>>
          /\ Leave(c, DeleteEventResult(reply),
                   DeleteEventActionEnds(DeleteEventResult(reply)))
    /\ UNCHANGED <<nextId, user>>

\* ------------------------------------------------------------ auth actions
Credentials ==
    { [email |-> "ada@example.com", password |-> "correct horse"],
      [email |-> "bob@example.com", password |-> "123456"] }

\* what signInWithEmail and signUpWithEmail return for a reply that was returned
AuthResult(outcome) ==
    IF outcome # NoError THEN ErrorResponse(outcome) ELSE SuccessResponse({})

\* supabase.auth.signInWithPassword({ email, password })
SignInWithEmail(c, admitted) ==
    /\ admitted
    /\ Issue(c, "auth.signInWithPassword")
    /\ \E credentials \in Credentials, reply \in Replies :
          /\ Invoke(c, "signInWithEmail", NoUser, StrayId, credentials)
          /\ IF reply.thrown
             THEN Catch(c, reply) /\ UNCHANGED error
             ELSE /\ error' = [error EXCEPT ![c] = reply.message]
                  /\ Return(c, AuthResult(reply.message))
    /\ UNCHANGED <<db, user>>

\* supabase.auth.signUp({ email, password })
SignUpWithEmail(c, admitted) ==
    /\ admitted
    /\ Issue(c, "auth.signUp")
    /\ \E credentials \in Credentials, reply \in Replies :
          /\ Invoke(c, "signUpWithEmail", NoUser, StrayId, credentials)
          /\ IF reply.thrown
             THEN Catch(c, reply) /\ UNCHANGED error
             ELSE /\ error' = [error EXCEPT ![c] = reply.message]
                  /\ Return(c, AuthResult(reply.message))
    /\ UNCHANGED <<db, user>>

\* the redirect at the end of the try block instead of in finally
SignOutEnds_NoFinally(reply) ==
    IF reply.thrown THEN Returned ELSE Redirected("/login")

\* finally { redirect('/login') }
SignOutEnds(reply) == Redirected("/login")

\* try { await supabase.auth.signOut() } catch { log } finally { redirect }
SignOut(c, admitted) ==
    /\ admitted
    /\ Issue(c, "auth.signOut")
    /\ \E reply \in Replies :
          /\ Invoke(c, "signOut", NoUser, StrayId, NoData)
          /\ error' = [error EXCEPT ![c] = IF reply.thrown THEN @ ELSE reply.message]
          /\ Leave(c, result[c], SignOutEnds(reply))
    /\ UNCHANGED <<db, user>>

\* ---------------------------------------------------------- OAuth callback
\* origin of the request url
Origin == "https://app.example"
ErrorRoute == Origin \o "/auth/auth-code-error"

\* the query parameters of the callback request, as searchParams.get returns
\* them: null (absent), empty, or a value
CallbackRequests ==
    [code : {Undefined, "", "4/0AbCd"},
     error : {Undefined, "", "access_denied"},
     error_description : {Undefined, "User cancelled", "scope a&b=c denied"},
     next : {Undefined, "/events/1", "@evil.example", ":x"}]

\* searchParams.get('next') ?? '/dashboard'
NextOf(request) == IF request.next = Undefined THEN "/dashboard" ELSE request.next

\* the location of a redirect to the error-display route
ErrorLocation(code, description) ==
    ErrorRoute \o "?error=" \o code \o "&description=" \o description

\* the exchange attempted although the provider reported an error
ProviderError_Ignored(request) == FALSE

\* if (error)
ProviderError(request) == Truthy(request.error)

\* the redirect of the provider-error branch
ProviderErrorLocation(request) ==
    ErrorLocation(EncodeURIComponent(request.error),
                  EncodeURIComponent(IF Truthy(request.error_description)
                                     THEN request.error_description ELSE ""))

\* the message of the error NextResponse.redirect throws on a location that
\* new URL() rejects
MalformedUrl(url) == "URL is malformed " \o url

\* the success redirect always goes to the dashboard
SuccessLocation_Dashboard(request) == Origin \o "/dashboard"

\* NextResponse.redirect(`${origin}${next}`) inside the try block: the
\* location is validated and normalized, and a rejected one is caught
SuccessLocation(request) ==
    IF ValidUrl(Origin \o NextOf(request))
    THEN Href(Origin \o NextOf(request))
    ELSE ErrorLocation("unexpected",
                       EncodeURIComponent(MalformedUrl(Origin \o NextOf(request))))

\* data.session of an exchange: a session of the signed-in user, or null
SessionOf(reply, hasSession) ==
    IF ~reply.thrown /\ reply.message = NoError /\ hasSession
    THEN "u1" ELSE NoUser

\* a missing session reported with the code of a failed exchange
ExchangeLocation_OneCode(reply, hasSession, request) ==
    IF reply.thrown
    THEN ErrorLocation("unexpected",
                       EncodeURIComponent(IF reply.isError THEN reply.message
                                          ELSE "Unknown error"))
    ELSE IF reply.message # NoError
    THEN ErrorLocation("exchange_failed", EncodeURIComponent(reply.message))
    ELSE IF hasSession
    THEN SuccessLocation(request)
    ELSE ErrorLocation("exchange_failed", "No session was created")

\* the redirect after createClient() and exchangeCodeForSession(code)
ExchangeLocation(reply, hasSession, request) ==
    IF reply.thrown
    THEN ErrorLocation("unexpected",
                       EncodeURIComponent(IF reply.isError THEN reply.message
                                          ELSE "Unknown error"))
    ELSE IF reply.message # NoError
    THEN ErrorLocation("exchange_failed", EncodeURIComponent(reply.message))
    ELSE IF hasSession
    THEN SuccessLocation(request)
    ELSE ErrorLocation("no_session", "No session was created")

\* GET up to its first await: the parameters are read and the branch is taken
CallbackGet(c, admitted) ==
    /\ admitted
    /\ \E request \in CallbackRequests :
          /\ Invoke(c, "GET", NoUser, StrayId, request)
          /\ IF ProviderError(request)
             THEN Leave(c, result[c], Redirected(ProviderErrorLocation(request)))
             ELSE IF Truthy(request.code)
             THEN Goto(c, "exchange")
             ELSE Leave(c, result[c],
                        Redirected(ErrorLocation("no_code",
                                     "No authorization code was provided")))
          /\ error' = [error EXCEPT ![c] = IF ~ProviderError(request)
                                              /\ Truthy(request.code)
                                           THEN Undefined ELSE @]
    /\ UNCHANGED <<db, user, issued>>

\* an exchange that returned an error is tried again
CallbackExchange_Retries(c) ==
    /\ op[c] = "GET" /\ pc[c] = "exchange"
    /\ \E reply \in Replies, hasSession \in BOOLEAN :
          /\ Issue(c, "auth.exchangeCodeForSession")
          /\ error' = [error EXCEPT ![c] = IF reply.thrown THEN @ ELSE reply.message]
          /\ user' = [user EXCEPT ![c] = SessionOf(reply, hasSession)]
          /\ IF ~reply.thrown /\ reply.message # NoError /\ Len(issued[c]) < 2
             THEN Goto(c, "exchange")
             ELSE Leave(c, result[c],
                        Redirected(ExchangeLocation(reply, hasSession, data[c])))
    /\ UNCHANGED <<db, args>>

\* the try block of GET: createClient(), then the exchange of the code
CallbackExchange(c) ==
    /\ op[c] = "GET" /\ pc[c] = "exchange"
    /\ \/ \E e \in Throwables :
             /\ Leave(c, result[c],
                      Redirected(ExchangeLocation(Threw(e), FALSE, data[c])))
             /\ UNCHANGED <<issued, error, user>>
       \/ \E reply \in Replies, hasSession \in BOOLEAN :
             /\ Issue(c, "auth.exchangeCodeForSession")
             /\ error' = [error EXCEPT ![c] = IF reply.thrown THEN @ ELSE reply.message]
             /\ user' = [user EXCEPT ![c] = SessionOf(reply, hasSession)]
             /\ Leave(c, result[c],
                      Redirected(ExchangeLocation(reply, hasSession, data[c])))
    /\ UNCHANGED <<db, args>>

\* -------------------------------------------------------- handleActionError
\* the phrases the messages of the caught errors are made of
Phrases ==
    {"", "duplicate key", "foreign key", "not null", "unique constraint",
     "Duplicate Key"}
\* the values a catch block hands to handleActionError
CaughtValues ==
    {Error(a \o " value " \o b \o " in " \o d) : a, b, d \in Phrases}
        \cup {NotAnError}

\* handleActionError(error) called with a caught value
HandleActionErrorCall(c, admitted) ==
    /\ admitted
    /\ \E e \in CaughtValues :
          /\ Invoke(c, "handleActionError", NoUser, StrayId, e)
          /\ Return(c, HandleActionError(e))
    /\ UNCHANGED <<db, user, error, issued>>

\* ------------------------------------------------------------ the requests
\* the caller has taken the envelope; the slot serves the next request
Respond(c) ==
    /\ pc[c] = "done"
    /\ pc' = [pc EXCEPT ![c] = "idle"]
    /\ op' = [op EXCEPT ![c] = "none"]
    /\ session' = [session EXCEPT ![c] = NoUser]
    /\ eventId' = [eventId EXCEPT ![c] = StrayId]
    /\ data' = [data EXCEPT ![c] = NoData]
    /\ user' = [user EXCEPT ![c] = NoUser]
    /\ error' = [error EXCEPT ![c] = NoError]
    /\ result' = [result EXCEPT ![c] = NoResult]
    /\ exit' = [exit EXCEPT ![c] = NoExit]
    /\ issued' = [issued EXCEPT ![c] = <<>>]
    /\ venuesAtStart' = [venuesAtStart EXCEPT ![c] = NoVenues]
    /\ UNCHANGED <<db, requests>>

\* requests are served independently: server actions interleave freely
Next ==
    \E c \in Calls :
        \/ CreateGetUser(c, TRUE)
        \/ CreateInsertEvent(c)
        \/ CreateInsertVenues(c)
        \/ CreateReread(c)
        \/ UpdateEventRow(c, TRUE)
        \/ UpdateDeleteVenues(c)
        \/ UpdateInsertVenues(c)
        \/ UpdateReread(c)
        \/ DeleteEventRow(c, TRUE)
        \/ GetEventByIdSelect(c, TRUE)
        \/ Respond(c)

Spec == Init /\ [][Next]_vars

\* a batch of requests issued together: none starts once one of the batch has
\* returned, and the slots are released together when all of them returned
NoneDone == \A c \in Calls : pc[c] # "done"

RespondAll ==
    /\ \E c \in Calls : pc[c] = "done"
    /\ \A c \in Calls : pc[c] \in {"idle", "done"}
    /\ pc' = [c \in Calls |-> "idle"]
    /\ op' = [c \in Calls |-> "none"]
    /\ session' = [c \in Calls |-> NoUser]
    /\ eventId' = [c \in Calls |-> StrayId]
    /\ data' = [c \in Calls |-> NoData]
    /\ user' = [c \in Calls |-> NoUser]
    /\ error' = [c \in Calls |-> NoError]
    /\ result' = [c \in Calls |-> NoResult]
    /\ exit' = [c \in Calls |-> NoExit]
    /\ issued' = [c \in Calls |-> <<>>]
    /\ venuesAtStart' = [c \in Calls |-> NoVenues]
    /\ UNCHANGED <<db, requests>>

NextBatch ==
    \/ \E c \in Calls :
        \/ CreateGetUser(c, NoneDone)
        \/ CreateInsertEvent(c)
        \/ CreateInsertVenues(c)
        \/ CreateReread(c)
        \/ UpdateEventRow(c, NoneDone)
        \/ UpdateDeleteVenues(c)
        \/ UpdateInsertVenues(c)
        \/ UpdateReread(c)
        \/ DeleteEventRow(c, NoneDone)
        \/ GetEventByIdSelect(c, NoneDone)
    \/ RespondAll

SpecBatch == Init /\ [][NextBatch]_vars

\* requests served one after the other: a request arrives only when no other is
\* in flight or waiting to be answered
AllIdle == \A c \in Calls : pc[c] = "idle"

NextSeq ==
    \E c \in Calls :
        \/ CreateGetUser(c, AllIdle)
        \/ CreateInsertEvent(c)
        \/ CreateInsertVenues(c)
        \/ CreateReread(c)
        \/ UpdateEventRow(c, AllIdle)
        \/ UpdateDeleteVenues(c)
        \/ UpdateInsertVenues(c)
        \/ UpdateReread(c)
        \/ DeleteEventRow(c, AllIdle)
        \/ GetEventByIdSelect(c, AllIdle)
        \/ Respond(c)

SpecSeq == Init /\ [][NextSeq]_vars

\* createEvent and updateEvent called with inputs no form checked, requests
\* served one after the other
NextUnchecked ==
    \E c \in Calls :
        \/ CreateUnchecked(c, AllIdle)
        \/ CreateInsertEvent(c)
        \/ CreateInsertVenues(c)
        \/ CreateReread(c)
        \/ UpdateUnchecked(c, AllIdle)
        \/ UpdateDeleteVenues(c)
        \/ UpdateInsertVenues(c)
        \/ UpdateReread(c)
        \/ Respond(c)

SpecUnchecked == Init /\ [][NextUnchecked]_vars

\* every server action, requests served one after the other, with the
\* exceptions createClient() and the backend calls may throw
NextApp ==
    \E c \in Calls :
        \/ CreateGetUser(c, AllIdle)
        \/ CreateInsertEvent(c)
        \/ CreateInsertVenues(c)
        \/ CreateReread(c)
        \/ UpdateEventRow(c, AllIdle)
        \/ UpdateDeleteVenues(c)
        \/ UpdateInsertVenues(c)
        \/ UpdateReread(c)
        \/ DeleteEventRow(c, AllIdle)
        \/ GetEventByIdSelect(c, AllIdle)
        \/ ThrowsAtStart(c, AllIdle)
        \/ Throws(c)
        \/ GetEvents(c, AllIdle)
        \/ SearchAndFilterEvents(c, AllIdle)
        \/ DeleteEventAction(c, AllIdle)
        \/ SignInWithEmail(c, AllIdle)
        \/ SignUpWithEmail(c, AllIdle)
        \/ SignOut(c, AllIdle)
        \/ Respond(c)

SpecApp == Init /\ [][NextApp]_vars

\* the error normalizer on the values a catch block may receive
NextNormalize ==
    \E c \in Calls :
        \/ HandleActionErrorCall(c, AllIdle)
        \/ Respond(c)

SpecNormalize == Init /\ [][NextNormalize]_vars

\* the queries against a stored state: the rows an event may have
QueryIds == 1..MaxRows
QueryRows ==
    { [name |-> "Hoops Cup", date |-> "2025-04-01T10:00:00Z",
       sport_type |-> "Basketball"],
      [name |-> "hoops 100%", date |-> "2025-03-01T18:00:00Z",
       sport_type |-> "Soccer"],
      [name |-> "5v5 League", date |-> "2025-04-01T10:00:00Z",
       sport_type |-> "Soccer"],
      [name |-> "Cup Final", date |-> "2025-03-01T18:00:00Z",
       sport_type |-> "Basketball"] }

\* some events were created, each with one venue, and no request is in flight
InitQuery ==
    /\ \E S \in SUBSET QueryIds : \E rows \in [S -> QueryRows] :
          /\ events = [i \in S |->
                         [id |-> i, name |-> rows[i].name, date |-> rows[i].date,
                          sport_type |-> rows[i].sport_type,
                          description |-> Undefined, created_by |-> "u1"]]
          /\ event_venues = [i \in Ids \cup QueryIds |->
                               IF i \in S THEN BagOfSeq(<<"Field A">>)
                               ELSE NoVenues]
    /\ nextId = MaxRows + 1
    /\ op = [c \in Calls |-> "none"]
    /\ pc = [c \in Calls |-> "idle"]
    /\ session = [c \in Calls |-> NoUser]
    /\ eventId = [c \in Calls |-> StrayId]
    /\ data = [c \in Calls |-> NoData]
    /\ user = [c \in Calls |-> NoUser]
    /\ error = [c \in Calls |-> NoError]
    /\ result = [c \in Calls |-> NoResult]
    /\ exit = [c \in Calls |-> NoExit]
    /\ issued = [c \in Calls |-> <<>>]
    /\ venuesAtStart = [c \in Calls |-> NoVenues]
    /\ requests = 0

NextQuery ==
    \E c \in Calls :
        \/ GetEvents(c, AllIdle)
        \/ SearchAndFilterEvents(c, AllIdle)
        \/ Respond(c)

SpecQuery == InitQuery /\ [][NextQuery]_vars

\* the OAuth callback route; an exchange that was issued is answered
NextCallback ==
    \E c \in Calls :
        \/ CallbackGet(c, AllIdle)
        \/ CallbackExchange(c)
        \/ Respond(c)

SpecCallback ==
    Init /\ [][NextCallback]_vars /\ \A c \in Calls : WF_vars(CallbackExchange(c))

\* ------------------------------------------------------------------ claims
\* what a getEventById(id) that follows, and is not rejected, returns
FollowingGet(id) == GetEventById(id, NoError)

\* C1: createEvent without an authenticated principal (getUser returns an error
\* or no user) returns the error envelope "User not authenticated" and inserts
\* neither an events row nor an event_venues row.
C1_Unauthenticated ==
    [][\A c \in Calls :
          (pc[c] = "idle" /\ op'[c] = "createEvent" /\ user'[c] = NoUser)
          => /\ pc'[c] = "done"
             /\ result'[c] = ErrorResponse("User not authenticated")
             /\ events' = events
             /\ event_venues' = event_venues]_vars

C1_Witness ==
    \E c \in Calls :
        /\ op[c] = "createEvent" /\ pc[c] = "done"
        /\ session[c] = NoUser /\ user[c] = NoUser
        /\ result[c] = ErrorResponse("User not authenticated")

\* C2: a createEvent that succeeds for principal P returns an Event whose
\* created_by is P, and a following getEventById of the returned id returns the
\* Event with exactly the submitted venue names.
C2_CreateThenGet ==
    \A c \in Calls :
        (op[c] = "createEvent" /\ pc[c] = "done" /\ result[c].success)
        => /\ result[c].data # {}
           /\ session[c] \in Principals
           /\ ValueOf(result[c].data).created_by = session[c]
           /\ FollowingGet(ValueOf(result[c].data).id).success
           /\ ValueOf(FollowingGet(ValueOf(result[c].data).id).data).created_by
                 = session[c]
           /\ ValueOf(FollowingGet(ValueOf(result[c].data).id).data).venues
                 = BagOfSeq(ValueOf(data[c].venues))

C2_Witness ==
    \E c \in Calls :
        /\ op[c] = "createEvent" /\ pc[c] = "done" /\ result[c].success
        /\ session[c] = "u2"
        /\ data[c].venues = Given(<<"Field A", "Field B">>)

\* C3: createEvent is atomic: once it returned an error, no events row created
\* by that call exists.
C3_CreateAtomic ==
    \A c \in Calls :
        (op[c] = "createEvent" /\ pc[c] = "done" /\ ~result[c].success)
        => eventId[c] \notin DOMAIN events

\* C4: every existing Event has at least one Venue row, in every reachable state.
C4_EveryEventHasVenue ==
    \A id \in DOMAIN events : event_venues[id] # NoVenues

\* C5: every event_venues row references an events row that exists.
C5_NoOrphanVenue ==
    \A id \in Ids : event_venues[id] # NoVenues => id \in DOMAIN events

\* an updateEvent whose venue insert ran after the event was deleted
C5_Witness ==
    \E c \in Calls :
        /\ op[c] = "updateEvent" /\ pc[c] = "done"
        /\ error[c] = ForeignKeyViolation
        /\ venuesAtStart[c] # NoVenues
        /\ eventId[c] \notin DOMAIN events

\* C6: an updateEvent whose input omits venues deletes and inserts no
\* event_venues row, and a following getEventById returns the Event with the
\* Venue set it had before the call.
C6_OmittedVenuesKept ==
    /\ [](\A c \in Calls :
            (op[c] = "updateEvent" /\ ~IsGiven(data[c].venues))
            => /\ event_venues[eventId[c]] = venuesAtStart[c]
               /\ (pc[c] = "done" /\ result[c].success)
                  => /\ ValueOf(result[c].data).venues = venuesAtStart[c]
                     /\ FollowingGet(eventId[c]).success
                     /\ ValueOf(FollowingGet(eventId[c]).data).venues
                           = venuesAtStart[c])
    /\ [][\A c \in Calls :
            (op[c] = "updateEvent" /\ ~IsGiven(data[c].venues) /\ pc'[c] # pc[c])
            => event_venues' = event_venues]_vars

C6_Witness ==
    \E c \in Calls :
        /\ op[c] = "updateEvent" /\ pc[c] = "done" /\ result[c].success
        /\ ~IsGiven(data[c].venues)
        /\ venuesAtStart[c] = BagOfSeq(<<"Field A", "Field B">>)
        /\ events[eventId[c]].name = data[c].name

\* C7: an updateEvent on an existing event with a non-empty venues array, all
\* backend calls succeeding: a following getEventById returns exactly the new
\* array as Venue set, no old venue left, no new one missing or duplicated.
C7_VenuesReplaced ==
    \A c \in Calls :
        (op[c] = "updateEvent" /\ pc[c] = "done" /\ result[c].success
           /\ IsGiven(data[c].venues))
        => /\ ValueOf(result[c].data).venues = BagOfSeq(ValueOf(data[c].venues))
           /\ FollowingGet(eventId[c]).success
           /\ ValueOf(FollowingGet(eventId[c]).data).venues
                 = BagOfSeq(ValueOf(data[c].venues))

C7_Witness ==
    \E c \in Calls :
        /\ op[c] = "updateEvent" /\ pc[c] = "done" /\ result[c].success
        /\ data[c].venues = Given(<<"Field B", "Field C">>)
        /\ venuesAtStart[c] = BagOfSeq(<<"Field A">>)
        /\ event_venues[eventId[c]]["Field A"] = 0

\* update w alone accounts for the stored event id: its venues are exactly w's
\* list and every scalar w supplied has w's value
Wins(w, id) ==
    /\ event_venues[id] = BagOfSeq(ValueOf(data[w].venues))
    /\ events[id] = PatchRow(events[id], data[w])

\* C8: two concurrent updateEvent calls on the same event, both completed
\* successfully: last write wins, the event's scalar fields and Venue set are
\* those of a single one of the two updates, never a mixture.
C8_LastWriteWins ==
    \A a, b \in Calls :
        (/\ a # b
         /\ \A c \in Calls \ {a, b} : pc[c] = "idle"
         /\ op[a] = "updateEvent" /\ pc[a] = "done" /\ result[a].success
         /\ op[b] = "updateEvent" /\ pc[b] = "done" /\ result[b].success
         /\ eventId[a] = eventId[b]
         /\ IsGiven(data[a].venues) /\ IsGiven(data[b].venues)
         /\ eventId[a] \in DOMAIN events)
        => Wins(a, eventId[a]) \/ Wins(b, eventId[a])

\* C9: in updateEvent with venues provided, a failed delete of the existing
\* Venue rows aborts the workflow with that error: no insert is attempted and
\* the Venue rows stay as they were.
C9_DeleteFailureAborts ==
    [][\A c \in Calls :
          (op[c] = "updateEvent" /\ pc[c] = "deleteVenues" /\ pc'[c] # pc[c]
             /\ error'[c] # NoError)
          => /\ pc'[c] = "done"
             /\ result'[c] = ErrorResponse(error'[c])
             /\ event_venues' = event_venues]_vars

\* the row update went through, the delete was rejected
C9_Witness ==
    \E c \in Calls :
        /\ op[c] = "updateEvent" /\ pc[c] = "done" /\ ~result[c].success
        /\ IsGiven(data[c].venues)
        /\ error[c] \in BackendMessages
        /\ eventId[c] \in DOMAIN events
        /\ events[eventId[c]].sport_type = data[c].sport_type
        /\ venuesAtStart[c] = BagOfSeq(<<"Field A">>)
        /\ event_venues[eventId[c]] = venuesAtStart[c]

\* C10: after deleteEvent(id) returned success, getEventById(id) returns the
\* failure variant and no event_venues row of the event exists.
C10_DeletedIsGone ==
    \A c \in Calls :
        (op[c] = "deleteEvent" /\ pc[c] = "done" /\ result[c].success)
        => /\ \A outcome \in BackendOutcomes :
                 ~GetEventById(eventId[c], outcome).success
           /\ event_venues[eventId[c]] = NoVenues

C10_Witness ==
    \E c \in Calls :
        /\ op[c] = "deleteEvent" /\ pc[c] = "done" /\ result[c].success
        /\ venuesAtStart[c] # NoVenues
        /\ eventId[c] \notin DOMAIN events

C12_SignOutRedirects ==
    [][\A c \in Calls :
          (pc[c] = "idle" /\ op'[c] = "signOut")
          => /\ pc'[c] = "done"
             /\ exit'[c] = Redirected("/login")]_vars

\* a sign-out whose backend call returned an error
C12_Witness ==
    \E c \in Calls :
        /\ op[c] = "signOut" /\ pc[c] = "done"
        /\ error[c] \in BackendMessages
        /\ exit[c] = Redirected("/login")

\* the server actions that return an envelope
EnvelopeActions ==
    {"getEvents", "getEventById", "searchAndFilterEvents", "createEvent",
     "updateEvent", "deleteEvent", "signInWithEmail", "signUpWithEmail"}

\* the success variant with data or the error variant with a message
IsEnvelope(r) ==
    \/ r.success /\ r.error = NoError
    \/ ~r.success /\ r.error \notin {NoError, Undefined} /\ r.data = {}

\* C13: each of getEvents, getEventById, searchAndFilterEvents, createEvent,
\* updateEvent, deleteEvent, signInWithEmail and signUpWithEmail ends every call
\* by returning one envelope, success with data or error with a message,
\* whatever its backend calls did (succeeded, returned an error, threw); no
\* exception escapes to the caller.
C13_AlwaysAnEnvelope ==
    /\ [](\A c \in Calls :
            op[c] \in EnvelopeActions
            => /\ exit[c].kind # "throw"
               /\ pc[c] = "done" => exit[c] = Returned /\ IsEnvelope(result[c])
               /\ pc[c] # "done" => exit[c] = NoExit /\ result[c] = NoResult)
    /\ [][\A c \in Calls :
            (op[c] \in EnvelopeActions /\ pc[c] = "done" /\ pc'[c] = "done")
            => result'[c] = result[c]]_vars

\* the venue insert of createEvent threw a value that is no Error
C13_Witness ==
    \E c \in Calls :
        /\ op[c] = "createEvent" /\ pc[c] = "done"
        /\ issued[c] = <<"auth.getUser", "events.insert", "event_venues.insert">>
        /\ result[c] = ErrorResponse("An unexpected error occurred")

\* C14: a rejection returned by a backend call of the event workflows (event
\* insert, venue insert, update, delete, query) reaches the error envelope
\* normalized by handleDatabaseError: "foreign key" in the message gives
\* "Referenced record not found", "duplicate key" gives "This record already
\* exists".
C14_RejectionNormalized ==
    \A c \in Calls :
        (/\ op[c] \in {"createEvent", "updateEvent", "deleteEvent",
                       "getEventById", "getEvents", "searchAndFilterEvents"}
         /\ pc[c] = "done" /\ ~result[c].success
         /\ error[c] # NoError
         /\ issued[c][Len(issued[c])] # "auth.getUser")
        => result[c].error = HandleDatabaseError(Error(error[c]))

\* the rules of the normalizer, in the order of the policy
Rules ==
    << <<"duplicate key", "This record already exists">>,
       <<"foreign key", "Referenced record not found">>,
       <<"not null", "Required field is missing">>,
       <<"unique constraint", "This value already exists">> >>

\* C15: handleDatabaseError answers by the first rule, in the order duplicate
\* key, foreign key, not null, unique constraint, whose phrase the message
\* contains; an Error matching no rule gives its message verbatim; a value that
\* is not an Error gives "An unexpected error occurred".
C15_FirstMatchWins ==
    \A c \in Calls :
        (op[c] = "handleActionError" /\ pc[c] = "done")
        => /\ ~result[c].success
           /\ ~data[c].isError
                 => result[c].error = "An unexpected error occurred"
           /\ data[c].isError
                 => /\ \A i \in DOMAIN Rules :
                         (/\ Includes(data[c].message, Rules[i][1])
                          /\ \A j \in 1..(i - 1) :
                                ~Includes(data[c].message, Rules[j][1]))
                         => result[c].error = Rules[i][2]
                    /\ (\A i \in DOMAIN Rules :
                           ~Includes(data[c].message, Rules[i][1]))
                         => result[c].error = data[c].message

\* a message that matches the first and the last rule
C15_Witness ==
    \E c \in Calls :
        /\ op[c] = "handleActionError" /\ pc[c] = "done"
        /\ data[c] = Error("duplicate key value unique constraint in ")
        /\ result[c] = ErrorResponse("This record already exists")

\* the ids of the rows of a list result
IdsOf(rows) == {rows[i].id : i \in DOMAIN rows}

\* the name contains the term, letter case ignored
NameContains(id, term) ==
    Includes(ToLowerCase(events[id].name), ToLowerCase(term))

\* C16: searchAndFilterEvents with a searchTerm returns exactly the Events
\* whose name contains the term case-insensitively, whatever their sport type
\* when sportType is not set, and of these exactly the ones whose sport_type
\* equals sportType when it is set.
C16_ExactMatches ==
    \A c \in Calls :
        (/\ op[c] = "searchAndFilterEvents" /\ pc[c] = "done"
         /\ result[c].success /\ Truthy(data[c].searchTerm))
        => IdsOf(result[c].data)
             = {id \in DOMAIN events :
                  /\ NameContains(id, data[c].searchTerm)
                  /\ Truthy(data[c].sportType)
                        => events[id].sport_type = data[c].sportType}

\* C17: searchAndFilterEvents called with neither searchTerm nor sportType
\* (undefined or empty) returns the same Events in the same order as getEvents
\* on the same stored state, by date ascending.
C17_NoFilterIsGetEvents ==
    \A c \in Calls :
        (/\ op[c] = "searchAndFilterEvents" /\ pc[c] = "done"
         /\ result[c].success
         /\ ~Truthy(data[c].searchTerm) /\ ~Truthy(data[c].sportType))
        => /\ result[c].data = GetEventsResult(NoError).data
           /\ IdsOf(result[c].data) = DOMAIN events
           /\ \A i, j \in DOMAIN result[c].data :
                 i < j => ~DateBefore(result[c].data[j].date,
                                      result[c].data[i].date)

\* an empty searchTerm, two events stored, the later one created first
C17_Witness ==
    \E c \in Calls :
        /\ op[c] = "searchAndFilterEvents" /\ pc[c] = "done"
        /\ result[c].success
        /\ data[c].searchTerm = "" /\ data[c].sportType = Undefined
        /\ Len(result[c].data) = 2
        /\ result[c].data[1].id > result[c].data[2].id

Count(calls, b) == Cardinality({i \in DOMAIN calls : calls[i] = b})

\* C19: every invocation of the OAuth callback handler ends with exactly one
\* redirect response, whatever parameters are present and whatever the exchange
\* does, and it attempts the code exchange at most once.
C19_OneRedirect ==
    /\ [](\A c \in Calls :
            op[c] = "GET"
            => /\ Count(issued[c], "auth.exchangeCodeForSession") <= 1
               /\ Len(issued[c]) <= 1
               /\ pc[c] = "done" => exit[c].kind = "redirect"
               /\ pc[c] # "done" => exit[c] = NoExit)
    /\ [][\A c \in Calls :
            (op[c] = "GET" /\ pc[c] = "done" /\ pc'[c] = "done")
            => exit'[c] = exit[c]]_vars
    /\ \A c \in Calls :
          (op[c] = "GET" /\ pc[c] = "exchange")
              ~> (op[c] = "GET" /\ pc[c] = "done" /\ exit[c].kind = "redirect")

\* the exchange was issued once and threw
C19_Witness ==
    \E c \in Calls :
        /\ op[c] = "GET" /\ pc[c] = "done"
        /\ issued[c] = <<"auth.exchangeCodeForSession">>
        /\ SearchParam(QueryOf(exit[c].value), "error") = "unexpected"
        /\ SearchParam(QueryOf(exit[c].value), "description") = "Unknown error"

\* the redirect goes to the error-display route and carries the error code and
\* the description of the request, and no backend call was issued
CarriesProviderError(c) ==
    /\ exit[c].kind = "redirect"
    /\ PathOf(exit[c].value) = ErrorRoute
    /\ SearchParam(QueryOf(exit[c].value), "error") = data[c].error
    /\ SearchParam(QueryOf(exit[c].value), "description")
          = (IF data[c].error_description = Undefined THEN ""
             ELSE data[c].error_description)
    /\ issued[c] = <<>>

\* C20 as stated: when the callback carries an error parameter, the handler
\* redirects to the error-display route with that error code and the
\* error_description verbatim (empty when absent) and attempts no code
\* exchange, even with a code present.
C20_ErrorParameterPresent ==
    \A c \in Calls :
        (op[c] = "GET" /\ data[c].error # Undefined /\ pc[c] # "idle")
        => pc[c] = "done" /\ CarriesProviderError(c)

\* C20: when the callback carries a non-empty error parameter, the handler
\* redirects to the error-display route with that error code and the
\* error_description verbatim (empty when absent) and attempts no code
\* exchange, even with a code present.
C20_ProviderError ==
    \A c \in Calls :
        (op[c] = "GET" /\ Truthy(data[c].error) /\ pc[c] # "idle")
        => pc[c] = "done" /\ CarriesProviderError(c)

\* an error reported together with a code
C20_Witness ==
    \E c \in Calls :
        /\ op[c] = "GET" /\ pc[c] = "done"
        /\ data[c].error = "access_denied" /\ data[c].code = "4/0AbCd"
        /\ data[c].error_description = "scope a&b=c denied"
        /\ SearchParam(QueryOf(exit[c].value), "description")
              = "scope a&b=c denied"

\* ----------------------------------------------- server-side createClient()
\* the cookies the backend client reads and writes
CookieNames == {"sb-access-token", "sb-refresh-token"}
\* a cookie store: the value of each cookie, undefined when it is not there
CookieJars ==
    { [n \in CookieNames |-> Undefined],
      [n \in CookieNames |-> IF n = "sb-access-token" THEN "expired" ELSE "r1"],
      [n \in CookieNames |-> IF n = "sb-access-token" THEN "a1" ELSE "r1"] }
\* the arrays setAll is called with
CookiesToSet ==
    { <<>>,
      <<[name |-> "sb-access-token", value |-> "a2"]>>,
      <<[name |-> "sb-access-token", value |-> "a2"],
        [name |-> "sb-refresh-token", value |-> "r2"]>>,
      <<[name |-> "sb-access-token", value |-> ""],
        [name |-> "sb-refresh-token", value |-> ""]>> }

\* what cookieStore.set throws where cookies cannot be modified
ReadonlyCookies ==
    Error("Cookies can only be modified in a Server Action or Route Handler")

\* the store after cookieStore.set(name, value, options) for the first n
\* members of cookiesToSet, in their order
RECURSIVE SetCookies(_, _, _)
SetCookies(store, cookiesToSet, n) ==
    IF n = 0 THEN store
    ELSE [SetCookies(store, cookiesToSet, n - 1)
             EXCEPT ![cookiesToSet[n].name] = cookiesToSet[n].value]

\* the calls of cookieStore.set that forEach makes: all of them, or those up
\* to the first that throws
SetCalls(writable, cookiesToSet) ==
    IF writable \/ cookiesToSet = <<>> THEN Len(cookiesToSet) ELSE 1

\* setAll without its try/catch
SetAllEnds_NoCatch(threw) == IF threw THEN Escaped(ReadonlyCookies) ELSE Returned

\* try { ... } catch { }: setAll returns whether or not a set threw
SetAllEnds(threw) == Returned

\* const cookieStore = await cookies(): the cookies of the request, in a
\* context that allows cookies to be modified or in one that does not
CookieClient(c, admitted) ==
    /\ admitted
    /\ \E jar \in CookieJars, writable \in BOOLEAN, cookiesToSet \in CookiesToSet,
          first \in {"setAll", "getAll"} :
          /\ Invoke(c, "cookies", NoUser, StrayId,
                    [request |-> jar, cookieStore |-> jar, writable |-> writable,
                     cookiesToSet |-> cookiesToSet, read |-> {}])
          /\ Goto(c, first)
    /\ UNCHANGED <<db, user, error, issued>>

\* setAll(cookiesToSet)
SetAll(c) ==
    /\ op[c] = "cookies" /\ pc[c] = "setAll"
    /\ LET writable == data[c].writable
           cookiesToSet == data[c].cookiesToSet
           calls == SetCalls(writable, cookiesToSet)
           threw == ~writable /\ calls > 0
       IN  /\ issued' = [issued EXCEPT
                            ![c] = @ \o [i \in 1..calls |-> "cookieStore.set"]]
           /\ data' = [data EXCEPT
                          ![c].cookieStore =
                              IF writable THEN SetCookies(@, cookiesToSet, calls)
                              ELSE @]
           /\ exit' = [exit EXCEPT ![c] = SetAllEnds(threw)]
           /\ pc' = [pc EXCEPT ![c] = IF SetAllEnds(threw).kind = "throw"
                                      THEN "done" ELSE "getAll"]
    /\ UNCHANGED <<db, op, session, eventId, venuesAtStart, requests, user,
                   error, result>>

\* getAll() { return cookieStore.getAll() }
GetAll(c) ==
    /\ op[c] = "cookies" /\ pc[c] = "getAll"
    /\ Issue(c, "cookieStore.getAll")
    /\ data' = [data EXCEPT ![c].read = Given(data[c].cookieStore)]
    /\ exit' = [exit EXCEPT ![c] = Returned]
    /\ pc' = [pc EXCEPT ![c] = "done"]
    /\ UNCHANGED <<db, op, session, eventId, venuesAtStart, requests, user,
                   error, result>>

NextCookies == \E c \in Calls : CookieClient(c, AllIdle) \/ SetAll(c)
                                    \/ GetAll(c) \/ Respond(c)
SpecCookies == Init /\ [][NextCookies]_vars

\* ---------------------------------------------------------------- middleware
StartsWith(s, prefix) ==
    Len(s) >= Len(prefix) /\ SubSeq(s, 1, Len(prefix)) = prefix
EndsWith(s, suffix) ==
    Len(s) >= Len(suffix) /\ SubSeq(s, Len(s) - Len(suffix) + 1, Len(s)) = suffix

\* (?:svg|png|jpg|jpeg|gif|webp)
ImageExtensions == {"svg", "png", "jpg", "jpeg", "gif", "webp"}

\* favicon.ico at the start of s: the unescaped "." stands for any character
FaviconPattern(s) ==
    /\ Len(s) >= 11
    /\ SubSeq(s, 1, 7) = "favicon"
    /\ SubSeq(s, 9, 11) = "ico"

\* the alternatives of the negative lookahead, tried where it stands: right
\* after the leading "/"
LookaheadMatches(s) ==
    \/ StartsWith(s, "_next/static")
    \/ StartsWith(s, "_next/image")
    \/ FaviconPattern(s)
    \/ \E ext \in ImageExtensions : EndsWith(s, "." \o ext)

\* a matcher without the alternative for image files
Matcher_NoExtensions(path) ==
    /\ StartsWith(path, "/")
    /\ ~(\/ StartsWith(Rest(path), "_next/static")
         \/ StartsWith(Rest(path), "_next/image")
         \/ FaviconPattern(Rest(path)))

\* config.matcher: '/((?!...).*)' against the whole path
Matcher(path) == StartsWith(path, "/") /\ ~LookaheadMatches(Rest(path))

\* the request paths: a beginning followed by an ending
PathStarts ==
    {"/", "/login", "/auth/callback", "/_next/static", "/_next/image",
     "/favicon.ico", "/favicon", "/api/_next/static", "/img/logo", "/dashboard"}
PathEnds ==
    {"", "/chunk.js", "s", "n", "-ico", ".png", ".svg", ".jpeg", ".webp",
     ".png/edit", ".pdf", "/favicon.ico"}
Paths == {a \o b : a \in PathStarts, b \in PathEnds}

\* the response of a request the middleware is not run on, and of one it is
\* run on: whatever updateSession(request) returns
PassedBy(path) == [kind |-> "next", value |-> path]
UpdateSession(path) == [kind |-> "updateSession", value |-> path]

\* a request: the matcher decides whether middleware(request) runs
Middleware(c, admitted) ==
    /\ admitted
    /\ \E path \in Paths :
          /\ Invoke(c, "middleware", NoUser, StrayId, [path |-> path])
          /\ IF Matcher(path)
             THEN Issue(c, "updateSession")
                  /\ Leave(c, result[c], UpdateSession(path))
             ELSE UNCHANGED issued /\ Leave(c, result[c], PassedBy(path))
    /\ UNCHANGED <<db, user, error>>

NextMatcher == \E c \in Calls : Middleware(c, AllIdle) \/ Respond(c)
SpecMatcher == Init /\ [][NextMatcher]_vars

\* ----------------------------------------------------------------------- C23
\* path is dir itself or lies below it
Under(path, dir) == path = "/" \o dir \/ StartsWith(path, "/" \o dir \o "/")
\* the middleware ran on the request of call c
Selected(c) == issued[c] = <<"updateSession">>

ToContinuation(c) ==
    exit[c] = Redirected(Href(Origin \o NextOf(data[c])))
\* the redirect of a finished GET goes to the error-display route
ToErrorRoute(c) ==
    exit[c].kind = "redirect" /\ PathOf(exit[c].value) = ErrorRoute
\* the error code on the redirect of a finished GET
ErrorCode(c) == SearchParam(QueryOf(exit[c].value), "error")

\* C21 as stated: the OAuth callback redirects to the continuation path (next,
\* default /dashboard) if and only if no error parameter is present, a code is
\* present, and the exchange of that code succeeded and yielded a session; in
\* every other case the redirect goes to the error-display route.
C21_ContinuationIffPresent ==
    \A c \in Calls :
        (op[c] = "GET" /\ pc[c] = "done")
        => /\ ToContinuation(c)
                <=> (data[c].error = Undefined /\ data[c].code # Undefined
                        /\ user[c] \in Principals)
           /\ ~ToContinuation(c) => ToErrorRoute(c)

\* C21: the OAuth callback redirects to the continuation path (next, default
\* /dashboard) if and only if the error parameter is absent or empty, the code
\* is non-empty, the exchange of that code succeeded and yielded a session, and
\* the origin followed by next is a location new URL() accepts; in every other
\* case the redirect goes to the error-display route.
C21_ContinuationIff ==
    \A c \in Calls :
        (op[c] = "GET" /\ pc[c] = "done")
        => /\ ToContinuation(c)
                <=> (~Truthy(data[c].error) /\ Truthy(data[c].code)
                        /\ user[c] \in Principals
                        /\ ValidUrl(Origin \o NextOf(data[c])))
           /\ ~ToContinuation(c) => ToErrorRoute(c)

\* a session was created and the browser is sent to the path given as next
C21_Witness ==
    \E c \in Calls :
        /\ op[c] = "GET" /\ pc[c] = "done"
        /\ data[c].next = "/events/1" /\ user[c] = "u1"
        /\ exit[c] = Redirected("https://app.example/events/1")

\* C22: each failure the handler itself detects carries its own error code on
\* the redirect to the error-display route: an exchange that returned an error
\* has exchange_failed, an exchange that succeeded without a session has
\* no_session, a request with neither code nor error has no_code; the three
\* codes are pairwise distinct, and when the provider reported no error each
\* of them occurs on no other branch.
C22_DistinctCodes ==
    /\ "exchange_failed" # "no_session" /\ "no_session" # "no_code"
    /\ "exchange_failed" # "no_code"
    /\ \A c \in Calls :
          (op[c] = "GET" /\ pc[c] = "done")
          => LET returned == error[c] \notin {Undefined, NoError}
                 noSession == /\ error[c] = NoError /\ issued[c] # <<>>
                              /\ user[c] = NoUser
                 noCode == ~Truthy(data[c].code) /\ ~Truthy(data[c].error)
             IN  /\ returned => ToErrorRoute(c) /\ ErrorCode(c) = "exchange_failed"
                 /\ noSession => ToErrorRoute(c) /\ ErrorCode(c) = "no_session"
                 /\ (data[c].code = Undefined /\ data[c].error = Undefined)
                       => ToErrorRoute(c) /\ ErrorCode(c) = "no_code"
                 /\ (~ProviderError(data[c]) /\ ToErrorRoute(c))
                       => /\ ErrorCode(c) = "exchange_failed" => returned
                          /\ ErrorCode(c) = "no_session" => noSession
                          /\ ErrorCode(c) = "no_code" => noCode

\* the exchange succeeded and yielded no session
C22_Witness ==
    \E c \in Calls :
        /\ op[c] = "GET" /\ pc[c] = "done"
        /\ issued[c] = <<"auth.exchangeCodeForSession">>
        /\ error[c] = NoError /\ user[c] = NoUser
        /\ ErrorCode(c) = "no_session"

\* ----------------------------------------------------------------------- C30
\* the location is on the origin of the callback request
SameOrigin(url) ==
    /\ SubSeq(url, 1, Len(Scheme)) = SubSeq(Origin, 1, Len(Scheme))
    /\ HostOf(url) = HostOf(Origin)
    /\ PortOf(url) = PortOf(Origin)

\* C30: for every value of the next query parameter, the success redirect of
\* the OAuth callback targets a location on the same origin as the callback
\* request.
C30_SameOrigin ==
    \A c \in Calls :
        (op[c] = "GET" /\ pc[c] = "done" /\ user[c] \in Principals
            /\ ~ToErrorRoute(c))
        => SameOrigin(exit[c].value)

\* ----------------------------------------------------------------------- C24
\* the scalar fields of UpdateEventInput
ScalarFields == {"name", "date", "sport_type", "description"}

\* C24: updateEvent changes on the Event row only the scalar fields (name,
\* date, sport_type, description) supplied in its input: a field omitted from
\* the input keeps its stored value, a supplied one takes the value supplied,
\* and id and created_by are never changed by any operation after creation; no
\* step other than the row update of an updateEvent on that id changes a row.
C24_UpdateFrame ==
    [][\A id \in DOMAIN events \cap DOMAIN events' :
          /\ events'[id].id = events[id].id
          /\ events'[id].created_by = events[id].created_by
          /\ events'[id] # events[id]
                => \E c \in Calls :
                      /\ pc[c] = "idle" /\ op'[c] = "updateEvent"
                      /\ eventId'[c] = id
                      /\ issued'[c] = <<"events.update">>
                      /\ \A f \in ScalarFields :
                            events'[id][f] = (IF data'[c][f] = Undefined
                                              THEN events[id][f]
                                              ELSE data'[c][f])]_vars

\* an update that supplied only the name has returned: the name is the new
\* one, the other columns are those of the creation
C24_Witness ==
    \E c \in Calls :
        /\ op[c] = "updateEvent" /\ pc[c] = "done" /\ eventId[c] = 1
        /\ data[c].name = "Renamed" /\ data[c].sport_type = Undefined
        /\ result[c].success
        /\ 1 \in DOMAIN events
        /\ events[1].name = "Renamed" /\ events[1].sport_type = "Soccer"
        /\ events[1].date = "2025-03-01T18:00:00Z"
        /\ events[1].created_by = "u1" /\ events[1].id = 1

\* ----------------------------------------------------------------------- C25
\* the backend calls that write
Writes ==
    {"events.insert", "events.update", "event_venues.insert", "event_venues.delete"}

\* the input of call c violates the schema of its operation
ViolatesSchema(c) ==
    \/ op[c] = "createEvent" /\ ~CreateEventSchema(data[c])
    \/ op[c] = "updateEvent" /\ ~UpdateEventSchema(data[c])

\* C25: a create or update input that violates the validation rules (an empty
\* name, date or sport_type, an empty venues list, a venue with an empty
\* venue_name) is caught before any backend call: createEvent and updateEvent
\* issue no insert, update or delete for such an input.
C25_InvalidInputIssuesNothing ==
    \A c \in Calls :
        ViolatesSchema(c)
        => \A i \in DOMAIN issued[c] : issued[c][i] \notin Writes

\* ----------------------------------------------------------------------- C28
\* C28: updateEvent treats an empty venues array as a provided replacement,
\* not as an omission: called with venues = [] on an event that has venues,
\* once the row update succeeded it issues the delete of all the event's Venue
\* rows as its next call, and the rows are gone when the delete succeeded;
\* called with venues absent it issues no delete and no venue insert and
\* leaves the event's Venue rows as they were.
C28_EmptyVenuesReplace ==
    \A c \in Calls :
        (op[c] = "updateEvent" /\ venuesAtStart[c] # NoVenues)
        => /\ data[c].venues = Given(<<>>)
                => /\ Len(issued[c]) = 1
                        => \/ pc[c] = "deleteVenues"
                           \/ (pc[c] = "done" /\ ~result[c].success)
                   /\ Len(issued[c]) >= 2
                        => /\ issued[c][2] = "event_venues.delete"
                           /\ Count(issued[c], "event_venues.delete") = 1
                   /\ (pc[c] \in {"insertVenues", "reread"}
                         \/ (pc[c] = "done" /\ result[c].success))
                        => event_venues[eventId[c]] = NoVenues
           /\ data[c].venues = Omitted
                => /\ Count(issued[c], "event_venues.delete") = 0
                   /\ Count(issued[c], "event_venues.insert") = 0
                   /\ event_venues[eventId[c]] = venuesAtStart[c]

\* an update with venues = [] of an event that had venues returned success:
\* the delete was issued and the event has no venue left
C28_Witness ==
    \E c \in Calls :
        /\ op[c] = "updateEvent" /\ pc[c] = "done" /\ result[c].success
        /\ data[c].venues = Given(<<>>)
        /\ venuesAtStart[c] # NoVenues
        /\ Count(issued[c], "event_venues.delete") = 1
        /\ event_venues[eventId[c]] = NoVenues

\* ----------------------------------------------------------------------- C26
\* the backend calls of createEvent, in the order of the code
CreateSteps ==
    <<"auth.getUser", "events.insert", "event_venues.insert", "events.select">>

\* C26: the steps of createEvent are issued strictly in the order principal
\* check, event insert, venue insert, re-read, each only after the previous
\* one completed successfully: if the event insert fails, no venue insert and
\* no re-read are issued and no row is created; every venue row inserted
\* carries the id generated by that call's event insert.
C26_CreateStepsInOrder ==
    /\ [](\A c \in Calls :
            op[c] = "createEvent"
            => /\ Len(issued[c]) <= Len(CreateSteps)
               /\ issued[c] = SubSeq(CreateSteps, 1, Len(issued[c]))
               /\ (Len(issued[c]) = 2 /\ error[c] # NoError)
                     => /\ pc[c] = "done" /\ ~result[c].success
                        /\ eventId[c] = StrayId)
    /\ [][\A c \in Calls :
            (op'[c] = "createEvent" /\ issued'[c] # issued[c])
            => LET n == Len(issued'[c]) IN
               /\ Len(issued[c]) = n - 1
               /\ n > 1 => /\ error[c] = NoError /\ user[c] \in Principals
                           /\ user'[c] = user[c]
               /\ n > 2 => eventId[c] \in EventIds /\ eventId[c] < nextId
               /\ n > 2 => eventId'[c] = eventId[c]
               /\ n = 2 => IF error'[c] # NoError
                           THEN events' = events /\ event_venues' = event_venues
                           ELSE /\ eventId'[c] = nextId
                                /\ nextId \notin DOMAIN events
                                /\ DOMAIN events' = DOMAIN events \cup {nextId}
               /\ n = 3 => /\ events' = events
                           /\ \A id \in Ids \ {eventId[c]} :
                                 event_venues'[id] = event_venues[id]
                           /\ event_venues'[eventId[c]]
                                 = (IF error'[c] # NoError
                                    THEN event_venues[eventId[c]]
                                    ELSE BagSum(event_venues[eventId[c]],
                                                BagOfSeq(ValueOf(data[c].venues))))
               /\ n \in {1, 4} => events' = events /\ event_venues' = event_venues]_vars

\* a createEvent went through its four steps and returned the stored event
C26_Witness ==
    \E c \in Calls :
        /\ op[c] = "createEvent" /\ pc[c] = "done" /\ result[c].success
        /\ issued[c] = CreateSteps
        /\ eventId[c] \in DOMAIN events
        /\ events[eventId[c]].created_by = user[c]

\* ----------------------------------------------------------------------- C27
\* C27: the cookie-write operation setAll of the server-context Session
\* Accessor never propagates a failure: when the cookie store forbids
\* mutation, setAll returns normally without raising and leaves the store as
\* it was, and reading cookies through getAll still returns the request's
\* cookies.
C27_SetAllNeverThrows ==
    \A c \in Calls :
        op[c] = "cookies"
        => /\ exit[c].kind # "throw"
           /\ "cookieStore.set" \in {issued[c][i] : i \in DOMAIN issued[c]}
                 => exit[c] = Returned
           /\ ~data[c].writable
                 => /\ data[c].cookieStore = data[c].request
                    /\ pc[c] = "done" => data[c].read = Given(data[c].request)

\* where cookies cannot be modified, setAll tried the first cookie, returned,
\* and getAll then returned the cookies of the request
C27_Witness ==
    \E c \in Calls :
        /\ op[c] = "cookies" /\ pc[c] = "done" /\ ~data[c].writable
        /\ Len(data[c].cookiesToSet) = 2
        /\ issued[c] = <<"cookieStore.set", "cookieStore.getAll">>
        /\ exit[c] = Returned
        /\ data[c].read = Given(data[c].request)
        /\ data[c].request["sb-access-token"] = "expired"

\* ----------------------------------------------------------------------- C29
\* C29: deleteEvent is idempotent: called with an id that matches no Event
\* (for example a second call after a successful delete), it leaves the events
\* and event_venues relations unchanged and returns the success variant,
\* unless the backend reports an error for the call, which it returns.
C29_DeleteIdempotent ==
    [][\A c \in Calls :
          (pc[c] = "idle" /\ op'[c] = "deleteEvent"
              /\ eventId'[c] \notin DOMAIN events)
          => /\ events' = events
             /\ event_venues' = event_venues
             /\ pc'[c] = "done" /\ exit'[c] = Returned
             /\ issued'[c] = <<"events.delete">>
             /\ result'[c] = (IF error'[c] = NoError THEN SuccessResponse({})
                              ELSE ErrorResponse(error'[c]))]_vars

\* two deletes of the same event both returned success: one of them matched
\* no row
C29_Witness ==
    \E b, c \in Calls :
        /\ b # c
        /\ op[b] = "deleteEvent" /\ pc[b] = "done" /\ result[b].success
        /\ op[c] = "deleteEvent" /\ pc[c] = "done" /\ result[c].success
        /\ eventId[b] = eventId[c] /\ eventId[c] \in EventIds
        /\ eventId[c] \notin DOMAIN events
        /\ event_venues[eventId[c]] = NoVenues

====
